---- MODULE Spec2Model ----
(***************************************************************************)
(* Model of the openzt instance manager: the instance registry and port    *)
(* pool behind one reader/writer lock (state.rs, ports.rs), the request    *)
(* handlers and the background provisioning task (routes.rs), and the      *)
(* container runtime as seen through DockerManager (docker.rs).            *)
(***************************************************************************)
EXTENDS Integers, FiniteSets, Sequences, TLC

\* ---------------------------------------------------------------- bounds
\* Size of a run: the containers recovery has handled at startup plus the API
\* requests served, of all kinds together (create, delete, list, get, logs,
\* stop, start, restart).
MaxRequests == 3
\* Containers the runtime lists at startup.
MaxContainers == 2
\* Ports per configured range (rdp_end - rdp_start, ...).
RangeSize == 2
\* config.instances.max_instances
MaxInstances == 2

\* ------------------------------------------------------- configuration
rdp_start == 13390
rdp_end == rdp_start + RangeSize
console_start == 18081
console_end == console_start + RangeSize
xpra_start == 14500
xpra_end == xpra_start + RangeSize

Ids == 1..MaxRequests
Slots == 1..MaxRequests

\* The empty string of container_id, and Option::None of a port.
NoContainer == 0
NoPort == 0

RdpRange == rdp_start..(rdp_end - 1)
ConsoleRange == console_start..(console_end - 1)
XpraRange == xpra_start..(xpra_end - 1)

VARIABLES
    instances,   \* AppState.instances: id -> Instance record
    port_pool,   \* AppState.port_pool: the three allocated sets
    lock,        \* the RwLock around AppState: who holds it across steps
    files,       \* ids whose /tmp/openzt-<id>.dll exists
    containers,  \* the runtime: state of the container made for each id
    creq,        \* per id: the create handler and its background task
    reqs,        \* the other request handlers, by slot
    released,    \* history: release calls made for each id's allocation
    pool_ret,    \* result of the last direct port pool call
    recovery,    \* main's call of recover_instances: position, count, last container
    call         \* the last direct call of a function: name, input, output

vars == <<instances, port_pool, lock, files, containers, creq, reqs, released, pool_ret, recovery, call>>

\* ------------------------------------------------------------ port pool

RECURSIVE FirstFree(_, _, _)
\* `for port in range { if !allocated.contains(&port) { ... return Some(port) } } None`
FirstFree(lo, hi, allocated) ==
    IF lo >= hi THEN NoPort
    ELSE IF lo \notin allocated THEN lo
    ELSE FirstFree(lo + 1, hi, allocated)

PortPoolNew ==
    [allocated_rdp |-> {}, allocated_console |-> {}, allocated_xpra |-> {}]

\* The allocation that hands out the highest free port.
AllocateRdpHighest(pool) ==
    LET free == RdpRange \ pool.allocated_rdp IN
    IF free = {} THEN [pool |-> pool, port |-> NoPort]
    ELSE LET p == CHOOSE q \in free : \A o \in free : o <= q
         IN  [pool |-> [pool EXCEPT !.allocated_rdp = @ \cup {p}], port |-> p]

allocate_rdp(pool) ==
    LET p == FirstFree(rdp_start, rdp_end, pool.allocated_rdp) IN
    IF p = NoPort THEN [pool |-> pool, port |-> NoPort]
    ELSE [pool |-> [pool EXCEPT !.allocated_rdp = @ \cup {p}], port |-> p]

allocate_console(pool) ==
    LET p == FirstFree(console_start, console_end, pool.allocated_console) IN
    IF p = NoPort THEN [pool |-> pool, port |-> NoPort]
    ELSE [pool |-> [pool EXCEPT !.allocated_console = @ \cup {p}], port |-> p]

allocate_xpra(pool) ==
    LET p == FirstFree(xpra_start, xpra_end, pool.allocated_xpra) IN
    IF p = NoPort THEN [pool |-> pool, port |-> NoPort]
    ELSE [pool |-> [pool EXCEPT !.allocated_xpra = @ \cup {p}], port |-> p]

\* Each `?` returns None at once, keeping what the earlier calls inserted.
allocate_pair(pool) ==
    LET r == allocate_rdp(pool) IN
    IF r.port = NoPort THEN [pool |-> r.pool, ok |-> FALSE, rdp |-> NoPort, console |-> NoPort]
    ELSE LET c == allocate_console(r.pool) IN
         IF c.port = NoPort
         THEN [pool |-> c.pool, ok |-> FALSE, rdp |-> NoPort, console |-> NoPort]
         ELSE [pool |-> c.pool, ok |-> TRUE, rdp |-> r.port, console |-> c.port]

allocate_triplet(pool) ==
    LET r == allocate_rdp(pool) IN
    IF r.port = NoPort
    THEN [pool |-> r.pool, ok |-> FALSE, rdp |-> NoPort, console |-> NoPort, xpra |-> NoPort]
    ELSE LET c == allocate_console(r.pool) IN
         IF c.port = NoPort
         THEN [pool |-> c.pool, ok |-> FALSE, rdp |-> NoPort, console |-> NoPort, xpra |-> NoPort]
         ELSE LET x == allocate_xpra(c.pool) IN
              IF x.port = NoPort
              THEN [pool |-> x.pool, ok |-> FALSE, rdp |-> NoPort, console |-> NoPort,
                    xpra |-> NoPort]
              ELSE [pool |-> x.pool, ok |-> TRUE, rdp |-> r.port, console |-> c.port,
                    xpra |-> x.port]

\* The release that leaves the port allocated.
ReleaseRdpKeeps(pool, port) == pool

release_rdp(pool, port) == [pool EXCEPT !.allocated_rdp = @ \ {port}]

\* The release that takes a port the pool does not hold for a port to add.
ReleaseConsoleToggling(pool, port) ==
    IF port \in pool.allocated_console
    THEN [pool EXCEPT !.allocated_console = @ \ {port}]
    ELSE [pool EXCEPT !.allocated_console = @ \cup {port}]

release_console(pool, port) == [pool EXCEPT !.allocated_console = @ \ {port}]

release_xpra(pool, port) == [pool EXCEPT !.allocated_xpra = @ \ {port}]

release_pair(pool, rdp_port, console_port) ==
    release_console(release_rdp(pool, rdp_port), console_port)

release_triplet(pool, rdp_port, console_port, xpra_port) ==
    release_xpra(release_console(release_rdp(pool, rdp_port), console_port), xpra_port)

\* ports.rs 94-104: `range.clone().count() - allocated.len()`.
rdp_available(pool) == (rdp_end - rdp_start) - Cardinality(pool.allocated_rdp)

console_available(pool) == (console_end - console_start) - Cardinality(pool.allocated_console)

xpra_available(pool) == (xpra_end - xpra_start) - Cardinality(pool.allocated_xpra)

\* Registering a port without the range check.
AddExistingRdpUnchecked(pool, port) ==
    [pool |-> [pool EXCEPT !.allocated_rdp = @ \cup {port}], ok |-> TRUE]

\* ports.rs 107-113: Err for a port outside rdp_range, else insert and Ok(()).
add_existing_rdp(pool, port) ==
    IF ~(rdp_start <= port /\ port < rdp_end) THEN [pool |-> pool, ok |-> FALSE]
    ELSE [pool |-> [pool EXCEPT !.allocated_rdp = @ \cup {port}], ok |-> TRUE]

add_existing_console(pool, port) ==
    IF ~(console_start <= port /\ port < console_end) THEN [pool |-> pool, ok |-> FALSE]
    ELSE [pool |-> [pool EXCEPT !.allocated_console = @ \cup {port}], ok |-> TRUE]

add_existing_xpra(pool, port) ==
    IF ~(xpra_start <= port /\ port < xpra_end) THEN [pool |-> pool, ok |-> FALSE]
    ELSE [pool |-> [pool EXCEPT !.allocated_xpra = @ \cup {port}], ok |-> TRUE]

\* Each `?` returns the Err at once, keeping what the earlier calls inserted.
add_existing_pair(pool, rdp_port, console_port) ==
    LET r == add_existing_rdp(pool, rdp_port) IN
    IF ~r.ok THEN r ELSE add_existing_console(r.pool, console_port)

add_existing_triplet(pool, rdp_port, console_port, xpra_port) ==
    LET r == add_existing_rdp(pool, rdp_port) IN
    IF ~r.ok THEN r
    ELSE LET c == add_existing_console(r.pool, console_port) IN
         IF ~c.ok THEN c ELSE add_existing_xpra(c.pool, xpra_port)

\* ------------------------------------------------------------- statuses

Creating == "Creating"
Running == "Running"
Stopped == "Stopped"
ErrEnsureImage == "Error: Failed to pull image"
ErrCreate == "Error: Failed to create container"
ErrStart == "Error: Failed to start container"
ErrDeletedExternally == "Error: Container deleted externally"

IsError(status) == status \notin {Creating, Running, Stopped}

\* Error(e.to_string()) as set by the failure path of the background task.
ProvisioningErrors == {ErrEnsureImage, ErrCreate, ErrStart}

\* ----------------------------------------------------------------- lock

NoHolder == 0

\* state.write().await completes: no writer and no reader holds the lock.
CanWrite == lock.writer = NoHolder /\ lock.readers = {}

\* state.read().await completes: no writer holds the lock.
CanRead == lock.writer = NoHolder

\* -------------------------------------------------------- initial state

\* No direct pool call has been made on `pool` yet.
NoCall(pool) ==
    [op |-> "none", ok |-> TRUE, before |-> pool, port |-> NoPort, ports |-> << >>]

IdleCreate == [pc |-> "idle", vnc_port |-> NoPort, console_port |-> NoPort]

IdleRequest ==
    [op |-> "none", id |-> 0, pc |-> "idle", container_id |-> NoContainer,
     vnc_port |-> NoPort, console_port |-> NoPort, pending |-> {}, res |-> "none"]

\* No container has been taken from the listing.
NoSummary ==
    [id |-> 0, fault |-> "none", rdp_port |-> NoPort, console_port |-> NoPort,
     xpra_port |-> NoPort]

\* main.rs 35-69: the router is built and served once recover_instances has
\* returned, with Ok or with Err.
Serving == recovery.pc \in {"done", "failed"}

\* No function has been called directly.
NoneCalled == [op |-> "none", input |-> << >>, out |-> << >>]

\* AppState::new and a recovery that found no container: an empty registry
\* and an empty pool; nothing runs yet.
Init ==
    /\ instances = << >>
    /\ port_pool = PortPoolNew
    /\ lock = [writer |-> NoHolder, readers |-> {}]
    /\ files = {}
    /\ containers = [i \in Ids |-> "absent"]
    /\ creq = [i \in Ids |-> IdleCreate]
    /\ reqs = [s \in Slots |-> IdleRequest]
    /\ released = [i \in Ids |-> 0]
    /\ pool_ret = NoCall(PortPoolNew)
    /\ recovery = [pc |-> "done", scanned |-> 0, recovered_count |-> 0, last |-> NoSummary]
    /\ call = NoneCalled

\* ------------------------------------------------------- create_instance

\* Requests received so far, after the containers handled at startup.
Started ==
    Cardinality({i \in Ids : creq[i].pc # "idle"})
        + Cardinality({s \in Slots : reqs[s].pc # "idle"})
        + recovery.scanned

\* Another request arrives at the serving router.
Arrives == Serving /\ Started < MaxRequests

\* Uuid::new_v4(): the next identifier never used before.
FreshId(i) ==
    /\ Arrives
    /\ creq[i].pc = "idle"
    /\ \A j \in Ids : j < i => creq[j].pc # "idle"

\* routes.rs 57-62 with write_dll_to_temp, after the allocation's guard has
\* dropped: an undecodable or non-MZ payload returns InvalidDll through `?`
\* and nothing else runs; a valid one creates the temp file.
WriteDll(i, valid, a) ==
    IF valid
    THEN /\ files' = files \cup {i}
         /\ creq' = [creq EXCEPT ![i] =
                [pc |-> "written", vnc_port |-> a.rdp, console_port |-> a.console]]
    ELSE /\ files' = files
         /\ creq' = [creq EXCEPT ![i] =
                [pc |-> "invalid_dll", vnc_port |-> a.rdp, console_port |-> a.console]]

\* routes.rs 43-62: generate the id, allocate the ports in a write-lock scope
\* of their own (PortsExhausted through `?` when that fails), then write the
\* payload to its temp file.
CreateBegin(i) ==
    /\ FreshId(i)
    /\ CanWrite
    /\ LET a == allocate_pair(port_pool) IN
       /\ port_pool' = a.pool
       /\ IF a.ok
          THEN \E valid \in BOOLEAN : WriteDll(i, valid, a)
          ELSE /\ files' = files
               /\ creq' = [creq EXCEPT ![i].pc = "ports_exhausted"]
    /\ UNCHANGED <<instances, lock, containers, reqs, released, pool_ret, recovery, call>>

NewInstance(i) ==
    [container_id |-> NoContainer, vnc_port |-> creq[i].vnc_port,
     console_port |-> creq[i].console_port, status |-> Creating]

\* The insert without the ceiling check.
InsertUnchecked(i) ==
    /\ instances' = (i :> NewInstance(i)) @@ instances
    /\ creq' = [creq EXCEPT ![i].pc = "spawned"]
    /\ UNCHANGED <<port_pool, released>>

\* The scope that lets the task be spawned without inserting the record.
SpawnWithoutInsert(i) ==
    /\ instances' = instances
    /\ creq' = [creq EXCEPT ![i].pc = "spawned"]
    /\ UNCHANGED <<port_pool, released>>

\* routes.rs 75-83: one write-lock scope holds the ceiling check and the insert.
InsertOrReject(i) ==
    IF Cardinality(DOMAIN instances) >= MaxInstances
    THEN /\ port_pool' = release_pair(port_pool, creq[i].vnc_port, creq[i].console_port)
         /\ released' = [released EXCEPT ![i] = @ + 1]
         /\ instances' = instances
         /\ creq' = [creq EXCEPT ![i].pc = "max_instances_reached"]
    ELSE /\ instances' = (i :> NewInstance(i)) @@ instances
         /\ creq' = [creq EXCEPT ![i].pc = "spawned"]
         /\ UNCHANGED <<port_pool, released>>

\* routes.rs 75-119: insert the record, spawn the task, return the response.
CreateInsert(i) ==
    /\ creq[i].pc = "written"
    /\ CanWrite
    /\ InsertOrReject(i)
    /\ UNCHANGED <<lock, files, containers, reqs, pool_ret, recovery, call>>

\* ------------------------------------------------- create_container_task

\* routes.rs 167-179: start_container; on failure stop_and_remove_container
\* (whose own failure is only logged), then return Err.
StartOrCompensate(i, started, removed) ==
    IF started
    THEN /\ containers' = [containers EXCEPT ![i] = "running"]
         /\ creq' = [creq EXCEPT ![i].pc = "started"]
         /\ files' = files
    ELSE /\ containers' = [containers EXCEPT ![i] = IF removed THEN "removed" ELSE "created"]
         /\ creq' = [creq EXCEPT ![i].pc = "start_failed"]
         /\ files' = files \ {i}

\* routes.rs 130-179 and, on Err, 99-102: the runtime part of the task, none
\* of it under a lock that outlives a statement. DockerManager::new,
\* ensure_image or create_container failing returns Err before a container
\* exists; then the container is started. On Err the spawned closure removes
\* the temp file first.
TaskRun(i) ==
    /\ creq[i].pc = "spawned"
    /\ CanRead
    /\ \E outcome \in {"image_failed", "create_failed", "created"} :
         IF outcome = "created"
         THEN \E started \in BOOLEAN, removed \in BOOLEAN :
                StartOrCompensate(i, started, removed)
         ELSE /\ containers' = containers
              /\ creq' = [creq EXCEPT ![i].pc = outcome]
              /\ files' = files \ {i}
    /\ UNCHANGED <<instances, port_pool, lock, reqs, released, pool_ret, recovery, call>>

\* The commit that sets the status and forgets the container_id.
CommitStatusOnly(i) ==
    IF i \in DOMAIN instances
    THEN [instances EXCEPT ![i].status = Running]
    ELSE instances

\* routes.rs 184-190: commit container_id and Running if the record is there.
CommitSuccess(i) ==
    IF i \in DOMAIN instances
    THEN [instances EXCEPT ![i].container_id = i, ![i].status = Running]
    ELSE instances

TaskCommit(i) ==
    /\ creq[i].pc = "started"
    /\ CanWrite
    /\ instances' = CommitSuccess(i)
    /\ creq' = [creq EXCEPT ![i].pc = "done"]
    /\ UNCHANGED <<port_pool, lock, files, containers, reqs, released, pool_ret, recovery, call>>

TaskFailedPcs == {"image_failed", "create_failed", "start_failed"}

\* e.to_string() of the task's error: the outermost context.
TaskError(pc) ==
    CASE pc = "image_failed" -> ErrEnsureImage
      [] pc = "create_failed" -> ErrCreate
      [] pc = "start_failed" -> ErrStart

\* The failure path that marks the record and forgets the ports.
MarkFailedKeepPorts(i) ==
    /\ instances' = IF i \in DOMAIN instances
                    THEN [instances EXCEPT ![i].status = TaskError(creq[i].pc)]
                    ELSE instances
    /\ UNCHANGED <<port_pool, released>>

\* routes.rs 105-109: mark the record Error if present, release the ports always.
MarkFailed(i) ==
    /\ instances' = IF i \in DOMAIN instances
                    THEN [instances EXCEPT ![i].status = TaskError(creq[i].pc)]
                    ELSE instances
    /\ port_pool' = release_pair(port_pool, creq[i].vnc_port, creq[i].console_port)
    /\ released' = [released EXCEPT ![i] = @ + 1]

TaskFail(i) ==
    /\ creq[i].pc \in TaskFailedPcs
    /\ CanWrite
    /\ MarkFailed(i)
    /\ creq' = [creq EXCEPT ![i].pc = "done_" \o @]
    /\ UNCHANGED <<lock, files, containers, reqs, pool_ret, recovery, call>>

\* -------------------------------------------------------------- runtime

ContainerExists(c) == c # NoContainer /\ containers[c] \in {"created", "running", "exited"}

\* bollard's ContainerState of an existing container: running flag and status.
InspectState(c) ==
    CASE containers[c] = "running" -> [running |-> "true", status |-> "running"]
      [] containers[c] = "created" -> [running |-> "false", status |-> "created"]
      [] containers[c] = "exited" -> [running |-> "false", status |-> "exited"]

map_docker_status(state) ==
    CASE state.running = "true" -> Running
      [] state.running = "false" ->
            (CASE state.status \in {"exited", "paused"} -> Stopped
               [] state.status = "created" -> Creating
               [] state.status = "none" -> Stopped
               [] OTHER -> "Error: Container state: " \o state.status)
      [] OTHER -> Stopped

\* The refresh that takes a record without container for a running one.
RefreshAssumingRunning(container_id, reachable) ==
    IF container_id = NoContainer THEN Running
    ELSE IF ~reachable THEN "Err"
    ELSE IF ~ContainerExists(container_id) THEN "None"
    ELSE map_docker_status(InspectState(container_id))

\* docker.rs 412-444: Some(status), "None" for a container that is gone, "Err"
\* when the runtime cannot be reached.
refresh_instance_status(container_id, reachable) ==
    IF container_id = NoContainer THEN Creating
    ELSE IF ~reachable THEN "Err"
    ELSE IF ~ContainerExists(container_id) THEN "None"
    ELSE map_docker_status(InspectState(container_id))

\* Someone removes a container behind the manager's back (docker rm -f): the
\* case refresh_instance_status reports as Ok(None), docker.rs 432-438.
ExternalRemove(i) ==
    /\ ContainerExists(i)
    /\ containers' = [containers EXCEPT ![i] = "removed"]
    /\ UNCHANGED <<instances, port_pool, lock, files, creq, reqs, released, pool_ret, recovery, call>>

\* ------------------------------------------------------ request handlers

\* A request names an identifier some create request has generated or
\* recovery has registered.
Known(id) == creq[id].pc # "idle" \/ id \in DOMAIN instances

\* The next free handler slot.
FreeSlot(s) ==
    /\ Arrives
    /\ reqs[s].pc = "idle"
    /\ \A t \in Slots : t < s => reqs[t].pc # "idle"

\* A handler that has returned: its locals are gone, its response stays.
Finished(op, result) == [IdleRequest EXCEPT !.op = op, !.pc = "done", !.res = result]

\* ------------------------------------------------------- delete_instance

\* routes.rs 300-305: snapshot container_id and ports under the read lock.
DeleteRead(s, id) ==
    /\ FreeSlot(s)
    /\ Known(id)
    /\ CanRead
    /\ reqs' = [reqs EXCEPT ![s] =
          IF id \in DOMAIN instances
          THEN [IdleRequest EXCEPT !.op = "delete", !.id = id, !.pc = "remove",
                   !.container_id = instances[id].container_id,
                   !.vnc_port = instances[id].vnc_port,
                   !.console_port = instances[id].console_port]
          ELSE Finished("delete", "NotFound")]
    /\ UNCHANGED <<instances, port_pool, lock, files, containers, creq, released, pool_ret, recovery, call>>

\* routes.rs 307-316: remove the container when there is one (a failing
\* DockerManager::new aborts the request, a failing removal is only logged),
\* then cleanup_dll_temp.
DeleteRemove(s) ==
    /\ reqs[s].op = "delete" /\ reqs[s].pc = "remove"
    /\ IF reqs[s].container_id = NoContainer
       THEN /\ files' = files \ {reqs[s].id}
            /\ reqs' = [reqs EXCEPT ![s].pc = "commit"]
            /\ containers' = containers
       ELSE \E outcome \in {"removed", "remove_failed", "connect_failed"} :
              IF outcome = "connect_failed"
              THEN /\ reqs' = [reqs EXCEPT ![s] = Finished(reqs[s].op, "Internal")]
                   /\ UNCHANGED <<files, containers>>
              ELSE /\ containers' = [containers EXCEPT ![reqs[s].container_id] =
                          IF outcome = "removed" /\ ContainerExists(reqs[s].container_id)
                          THEN "removed" ELSE @]
                   /\ files' = files \ {reqs[s].id}
                   /\ reqs' = [reqs EXCEPT ![s].pc = "commit"]
    /\ UNCHANGED <<instances, port_pool, lock, creq, released, pool_ret, recovery, call>>

\* routes.rs 318-323: remove the record and release the snapshotted ports.
RemoveAndRelease(s) ==
    /\ instances' = [j \in DOMAIN instances \ {reqs[s].id} |-> instances[j]]
    /\ port_pool' = release_pair(port_pool, reqs[s].vnc_port, reqs[s].console_port)
    /\ released' = [released EXCEPT ![reqs[s].id] = @ + 1]

DeleteCommit(s) ==
    /\ reqs[s].op = "delete" /\ reqs[s].pc = "commit"
    /\ CanWrite
    /\ RemoveAndRelease(s)
    /\ reqs' = [reqs EXCEPT ![s] = Finished(reqs[s].op, "NoContent")]
    /\ UNCHANGED <<lock, files, containers, creq, pool_ret, recovery, call>>

\* -------------------------------------------------------- list_instances

\* routes.rs 199-204: snapshot the (id, container_id) pairs under the read lock.
ListSnapshot(s) ==
    /\ FreeSlot(s)
    /\ CanRead
    /\ reqs' = [reqs EXCEPT ![s] =
          [IdleRequest EXCEPT !.op = "list", !.pc = "connect",
              !.pending = {<<id, instances[id].container_id>> : id \in DOMAIN instances}]]
    /\ UNCHANGED <<instances, port_pool, lock, files, containers, creq, released, pool_ret, recovery, call>>

\* routes.rs 207-208, 234-236: with a runtime client, take the write lock for
\* the whole refresh loop; without one, keep the cached statuses.
ListLock(s) ==
    /\ reqs[s].op = "list" /\ reqs[s].pc = "connect"
    /\ \E connected \in BOOLEAN :
         IF connected
         THEN /\ CanWrite
              /\ lock' = [lock EXCEPT !.writer = s]
              /\ reqs' = [reqs EXCEPT ![s].pc = "refresh"]
         ELSE /\ CanRead
              /\ lock' = lock
              /\ reqs' = [reqs EXCEPT ![s] = Finished(reqs[s].op, "Ok")]
    /\ UNCHANGED <<instances, port_pool, files, containers, creq, released, pool_ret, recovery, call>>

\* The merge that drops the record of a container the runtime no longer has.
ApplyRefreshDropping(id, result) ==
    IF id \notin DOMAIN instances \/ result = "Err" THEN instances
    ELSE IF result = "None" THEN [j \in DOMAIN instances \ {id} |-> instances[j]]
    ELSE [instances EXCEPT ![id].status = result]

\* The merge that records a failed runtime query in the status.
ApplyRefreshFailing(id, result) ==
    IF id \notin DOMAIN instances THEN instances
    ELSE IF result = "Err"
    THEN [instances EXCEPT ![id].status = "Error: Failed to inspect container"]
    ELSE IF result = "None" THEN [instances EXCEPT ![id].status = ErrDeletedExternally]
    ELSE [instances EXCEPT ![id].status = result]

\* The merge that also forgets the container of a record it marks as gone.
ApplyRefreshClearing(id, result) ==
    IF id \notin DOMAIN instances \/ result = "Err" THEN instances
    ELSE IF result = "None"
    THEN [instances EXCEPT ![id].status = ErrDeletedExternally,
                           ![id].container_id = NoContainer]
    ELSE [instances EXCEPT ![id].status = result]

\* routes.rs 213-228 and 264-279: merge one refresh result into the record.
ApplyRefresh(id, result) ==
    IF id \notin DOMAIN instances \/ result = "Err" THEN instances
    ELSE IF result = "None" THEN [instances EXCEPT ![id].status = ErrDeletedExternally]
    ELSE [instances EXCEPT ![id].status = result]

\* routes.rs 211-229: one iteration of the loop, the runtime queried while
\* the write lock taken by ListLock is still held.
ListRefresh(s) ==
    /\ reqs[s].op = "list" /\ reqs[s].pc = "refresh"
    /\ lock.writer = s
    /\ \E item \in reqs[s].pending, reachable \in BOOLEAN :
         LET result == refresh_instance_status(item[2], reachable) IN
         /\ instances' = ApplyRefresh(item[1], result)
         /\ reqs' = [reqs EXCEPT ![s].pending = @ \ {item}, ![s].id = item[1],
                                  ![s].res = result]
    /\ UNCHANGED <<port_pool, lock, files, containers, creq, released, pool_ret, recovery, call>>

\* routes.rs 229-246: the loop is over, the write guard drops, the response
\* is read.
ListFinish(s) ==
    /\ reqs[s].op = "list" /\ reqs[s].pc = "refresh"
    /\ reqs[s].pending = {}
    /\ lock.writer = s
    /\ lock' = [lock EXCEPT !.writer = NoHolder]
    /\ reqs' = [reqs EXCEPT ![s] = Finished(reqs[s].op, "Ok")]
    /\ UNCHANGED <<instances, port_pool, files, containers, creq, released, pool_ret, recovery, call>>

\* ---------------------------------------------------------- get_instance

\* The lookup that takes a missing record for one without a container and
\* goes on to ask the runtime.
GetReadUnchecked(s, id) ==
    /\ FreeSlot(s)
    /\ Known(id)
    /\ CanRead
    /\ reqs' = [reqs EXCEPT ![s] =
          [IdleRequest EXCEPT !.op = "get", !.id = id, !.pc = "refresh",
                   !.container_id = IF id \in DOMAIN instances
                                    THEN instances[id].container_id ELSE NoContainer]]
    /\ UNCHANGED <<instances, port_pool, lock, files, containers, creq, released, pool_ret, recovery, call>>

\* routes.rs 254-259: snapshot container_id under the read lock.
GetRead(s, id) ==
    /\ FreeSlot(s)
    /\ Known(id)
    /\ CanRead
    /\ reqs' = [reqs EXCEPT ![s] =
          IF id \in DOMAIN instances
          THEN [IdleRequest EXCEPT !.op = "get", !.id = id, !.pc = "refresh",
                   !.container_id = instances[id].container_id]
          ELSE Finished("get", "NotFound")]
    /\ UNCHANGED <<instances, port_pool, lock, files, containers, creq, released, pool_ret, recovery, call>>

\* routes.rs 262-263: query the runtime with no lock held.
GetRefresh(s) ==
    /\ reqs[s].op = "get" /\ reqs[s].pc = "refresh"
    /\ \E reachable \in BOOLEAN :
         reqs' = [reqs EXCEPT ![s].pc = "commit",
                     ![s].res = refresh_instance_status(reqs[s].container_id, reachable)]
    /\ UNCHANGED <<instances, port_pool, lock, files, containers, creq, released, pool_ret, recovery, call>>

\* routes.rs 264-291: merge under the write lock (an Err result takes none),
\* then read the response under the read lock.
GetCommit(s) ==
    /\ reqs[s].op = "get" /\ reqs[s].pc = "commit"
    /\ IF reqs[s].res = "Err" THEN CanRead ELSE CanWrite
    /\ instances' = ApplyRefresh(reqs[s].id, reqs[s].res)
    /\ reqs' = [reqs EXCEPT ![s] =
          Finished(reqs[s].op, IF reqs[s].id \in DOMAIN instances THEN "Ok" ELSE "NotFound")]
    /\ UNCHANGED <<port_pool, lock, files, containers, creq, released, pool_ret, recovery, call>>

\* ----------------------------------------------------- get_instance_logs

\* routes.rs 332-343: the read guard taken here lives to the end of the
\* function, so it is still held when the runtime is asked for the logs.
LogsRead(s, id) ==
    /\ FreeSlot(s)
    /\ Known(id)
    /\ CanRead
    /\ IF id \notin DOMAIN instances
       THEN /\ reqs' = [reqs EXCEPT ![s] =
                   Finished("logs", "NotFound")]
            /\ lock' = lock
       ELSE IF instances[id].container_id = NoContainer
       THEN /\ reqs' = [reqs EXCEPT ![s] =
                   Finished("logs", "Container not yet created")]
            /\ lock' = lock
       ELSE /\ reqs' = [reqs EXCEPT ![s] =
                   [IdleRequest EXCEPT !.op = "logs", !.id = id, !.pc = "call",
                       !.container_id = instances[id].container_id]]
            /\ lock' = [lock EXCEPT !.readers = @ \cup {s}]
    /\ UNCHANGED <<instances, port_pool, files, containers, creq, released, pool_ret, recovery, call>>

\* The logs handler that asks for the write lock while its read guard lives.
LogsCallRelocking(s) ==
    /\ reqs[s].op = "logs" /\ reqs[s].pc = "call"
    /\ s \in lock.readers
    /\ CanWrite
    /\ \E connected \in BOOLEAN :
         reqs' = [reqs EXCEPT ![s] =
             Finished(reqs[s].op, IF connected THEN "Ok" ELSE "Internal")]
    /\ lock' = [lock EXCEPT !.readers = @ \ {s}]
    /\ UNCHANGED <<instances, port_pool, files, containers, creq, released, pool_ret, recovery, call>>

\* routes.rs 343-346: DockerManager::new and get_container_logs, then the
\* guard drops with the return.
LogsCall(s) ==
    /\ reqs[s].op = "logs" /\ reqs[s].pc = "call"
    /\ s \in lock.readers
    /\ \E connected \in BOOLEAN :
         reqs' = [reqs EXCEPT ![s] =
             Finished(reqs[s].op, IF connected THEN "Ok" ELSE "Internal")]
    /\ lock' = [lock EXCEPT !.readers = @ \ {s}]
    /\ UNCHANGED <<instances, port_pool, files, containers, creq, released, pool_ret, recovery, call>>

\* ------------------------------- stop_instance, start_instance, restart

LifecycleOps == {"stop", "start", "restart"}

\* The commit that takes every lifecycle operation to end in Running.
LifecycleTargetRunning(op) == Running

\* The status a successful stop/start/restart commits.
LifecycleTarget(op) == IF op = "stop" THEN Stopped ELSE Running

\* The lookup without the already-there shortcut of stop and start.
LifecycleReadNoShortcut(s, op, id) ==
    /\ FreeSlot(s)
    /\ Known(id)
    /\ CanRead
    /\ reqs' = [reqs EXCEPT ![s] =
          IF id \notin DOMAIN instances
          THEN Finished(op, "NotFound")
          ELSE IF instances[id].container_id = NoContainer
          THEN Finished(op, "Internal")
          ELSE [IdleRequest EXCEPT !.op = op, !.id = id, !.pc = "call",
                   !.container_id = instances[id].container_id]]
    /\ UNCHANGED <<instances, port_pool, lock, files, containers, creq, released, pool_ret, recovery, call>>

\* routes.rs 377-395, 424-442, 471-481: under the read lock, the already-
\* there shortcut of stop and start, and the empty container_id error.
LifecycleRead(s, op, id) ==
    /\ FreeSlot(s)
    /\ Known(id)
    /\ CanRead
    /\ reqs' = [reqs EXCEPT ![s] =
          IF id \notin DOMAIN instances
          THEN Finished(op, "NotFound")
          ELSE IF op # "restart" /\ instances[id].status = LifecycleTarget(op)
          THEN Finished(op, instances[id].status)
          ELSE IF instances[id].container_id = NoContainer
          THEN Finished(op, "Internal")
          ELSE [IdleRequest EXCEPT !.op = op, !.id = id, !.pc = "call",
                   !.container_id = instances[id].container_id]]
    /\ UNCHANGED <<instances, port_pool, lock, files, containers, creq, released, pool_ret, recovery, call>>

\* The runtime call whose failure is written into the record.
LifecycleCallMarkingError(s) ==
    /\ reqs[s].op \in LifecycleOps /\ reqs[s].pc = "call"
    /\ \E reachable \in BOOLEAN :
         IF reachable /\ ContainerExists(reqs[s].container_id)
         THEN /\ containers' = [containers EXCEPT ![reqs[s].container_id] =
                     IF reqs[s].op = "stop"
                     THEN (IF @ = "running" THEN "exited" ELSE @)
                     ELSE "running"]
              /\ reqs' = [reqs EXCEPT ![s].pc = "commit"]
              /\ instances' = instances
         ELSE /\ containers' = containers
              /\ reqs' = [reqs EXCEPT ![s] = Finished(reqs[s].op, "Internal")]
              /\ instances' = IF reqs[s].id \in DOMAIN instances
                              THEN [instances EXCEPT ![reqs[s].id].status =
                                        "Error: Failed to " \o reqs[s].op \o " container"]
                              ELSE instances
    /\ UNCHANGED <<port_pool, lock, files, creq, released, pool_ret, recovery, call>>

\* routes.rs 398-401, 445-448, 484-487: the runtime call, with no lock held;
\* it fails when the runtime is unreachable or the container is gone.
LifecycleCall(s) ==
    /\ reqs[s].op \in LifecycleOps /\ reqs[s].pc = "call"
    /\ \E reachable \in BOOLEAN :
         IF reachable /\ ContainerExists(reqs[s].container_id)
         THEN /\ containers' = [containers EXCEPT ![reqs[s].container_id] =
                     IF reqs[s].op = "stop"
                     THEN (IF @ = "running" THEN "exited" ELSE @)
                     ELSE "running"]
              /\ reqs' = [reqs EXCEPT ![s].pc = "commit"]
         ELSE /\ containers' = containers
              /\ reqs' = [reqs EXCEPT ![s] = Finished(reqs[s].op, "Internal")]
    /\ UNCHANGED <<instances, port_pool, lock, files, creq, released, pool_ret, recovery, call>>

\* routes.rs 404-409, 451-456, 490-495: commit the status under the write lock.
LifecycleCommit(s) ==
    /\ reqs[s].op \in LifecycleOps /\ reqs[s].pc = "commit"
    /\ CanWrite
    /\ instances' = IF reqs[s].id \in DOMAIN instances
                    THEN [instances EXCEPT ![reqs[s].id].status = LifecycleTarget(reqs[s].op)]
                    ELSE instances
    /\ reqs' = [reqs EXCEPT ![s] = Finished(reqs[s].op, LifecycleTarget(reqs[s].op))]
    /\ UNCHANGED <<port_pool, lock, files, containers, creq, released, pool_ret, recovery, call>>

\* ------------------------------------------------------------------ next

Next ==
    \/ \E i \in Ids : CreateBegin(i)
    \/ \E i \in Ids : CreateInsert(i)
    \/ \E i \in Ids : TaskRun(i)
    \/ \E i \in Ids : TaskCommit(i)
    \/ \E i \in Ids : TaskFail(i)
    \/ \E i \in Ids : ExternalRemove(i)
    \/ \E s \in Slots, id \in Ids : DeleteRead(s, id)
    \/ \E s \in Slots : DeleteRemove(s)
    \/ \E s \in Slots : DeleteCommit(s)
    \/ \E s \in Slots : ListSnapshot(s)
    \/ \E s \in Slots : ListLock(s)
    \/ \E s \in Slots : ListRefresh(s)
    \/ \E s \in Slots : ListFinish(s)
    \/ \E s \in Slots, id \in Ids : GetRead(s, id)
    \/ \E s \in Slots : GetRefresh(s)
    \/ \E s \in Slots : GetCommit(s)
    \/ \E s \in Slots, id \in Ids : LogsRead(s, id)
    \/ \E s \in Slots : LogsCall(s)
    \/ \E s \in Slots, op \in LifecycleOps, id \in Ids : LifecycleRead(s, op, id)
    \/ \E s \in Slots : LifecycleCall(s)
    \/ \E s \in Slots : LifecycleCommit(s)

Spec == Init /\ [][Next]_vars

\* A step of a spawned task or of a handler already past its first step.
Progress ==
    \/ \E i \in Ids : CreateInsert(i) \/ TaskRun(i) \/ TaskCommit(i) \/ TaskFail(i)
    \/ \E s \in Slots :
          \/ DeleteRemove(s) \/ DeleteCommit(s)
          \/ ListLock(s) \/ ListRefresh(s) \/ ListFinish(s)
          \/ GetRefresh(s) \/ GetCommit(s)
          \/ LogsCall(s)
          \/ LifecycleCall(s) \/ LifecycleCommit(s)

\* Scheduling: the runtime (tokio) polls every spawned task and every handler
\* that can make progress, and every runtime call returns; while some task or
\* handler has a step to take, one of them takes it. Requests arrive when
\* clients send them: no fairness on the arrival steps.
Fairness == WF_vars(Progress)

SpecFair == Spec /\ Fairness

\* ------------------------------------------- the port pool on its own

\* Every pool state over the configured ranges.
AllPools ==
    [allocated_rdp : SUBSET RdpRange, allocated_console : SUBSET ConsoleRange,
     allocated_xpra : SUBSET XpraRange]

PoolInit ==
    /\ instances = << >>
    /\ port_pool \in AllPools
    /\ lock = [writer |-> NoHolder, readers |-> {}]
    /\ files = {}
    /\ containers = [i \in Ids |-> "absent"]
    /\ creq = [i \in Ids |-> IdleCreate]
    /\ reqs = [s \in Slots |-> IdleRequest]
    /\ released = [i \in Ids |-> 0]
    /\ pool_ret = NoCall(port_pool)
    /\ recovery = [pc |-> "done", scanned |-> 0, recovered_count |-> 0, last |-> NoSummary]
    /\ call = NoneCalled

PoolUnchanged == UNCHANGED <<instances, lock, files, containers, creq, reqs, released, recovery, call>>

PoolAllocateRdp ==
    /\ LET a == allocate_rdp(port_pool) IN
       /\ port_pool' = a.pool
       /\ pool_ret' = [op |-> "allocate_rdp", ok |-> a.port # NoPort, before |-> port_pool,
                       port |-> a.port, ports |-> << >>]
    /\ PoolUnchanged

PoolAllocateConsole ==
    /\ LET a == allocate_console(port_pool) IN
       /\ port_pool' = a.pool
       /\ pool_ret' = [op |-> "allocate_console", ok |-> a.port # NoPort,
                       before |-> port_pool, port |-> a.port, ports |-> << >>]
    /\ PoolUnchanged

PoolAllocateXpra ==
    /\ LET a == allocate_xpra(port_pool) IN
       /\ port_pool' = a.pool
       /\ pool_ret' = [op |-> "allocate_xpra", ok |-> a.port # NoPort, before |-> port_pool,
                       port |-> a.port, ports |-> << >>]
    /\ PoolUnchanged

RECURSIVE UntilExhausted(_, _)
\* allocate_triplet called until it returns None: the pool left and the
\* triplets handed out.
UntilExhausted(pool, got) ==
    LET a == allocate_triplet(pool) IN
    IF ~a.ok THEN [pool |-> a.pool, got |-> got]
    ELSE UntilExhausted(a.pool, Append(got, <<a.rdp, a.console, a.xpra>>))

\* tests::test_exhaustion, from any pool.
PoolAllocateUntilExhausted ==
    /\ LET u == UntilExhausted(port_pool, << >>) IN
       /\ port_pool' = u.pool
       /\ pool_ret' = [op |-> "until_exhausted", ok |-> FALSE, before |-> port_pool,
                       port |-> NoPort, ports |-> u.got]
    /\ PoolUnchanged

\* tests::test_release, from any pool: allocate a triplet, release it,
\* allocate again. Nothing is released when the first call returns None.
PoolAllocateReleaseAllocate ==
    /\ LET a == allocate_triplet(port_pool)
           b == allocate_triplet(release_triplet(a.pool, a.rdp, a.console, a.xpra))
       IN  IF ~a.ok
           THEN /\ port_pool' = a.pool
                /\ pool_ret' = [op |-> "allocate_release_allocate", ok |-> FALSE,
                                before |-> port_pool, port |-> NoPort, ports |-> << >>]
           ELSE /\ port_pool' = b.pool
                /\ pool_ret' = [op |-> "allocate_release_allocate", ok |-> b.ok,
                                before |-> port_pool, port |-> NoPort,
                                ports |-> <<<<a.rdp, a.console, a.xpra>>,
                                            <<b.rdp, b.console, b.xpra>>>>]
    /\ PoolUnchanged

PoolAllocatePair ==
    /\ LET a == allocate_pair(port_pool) IN
       /\ port_pool' = a.pool
       /\ pool_ret' = [op |-> "allocate_pair", ok |-> a.ok, before |-> port_pool,
                     port |-> NoPort,
                     ports |-> IF a.ok THEN <<a.rdp, a.console>> ELSE << >>]
    /\ PoolUnchanged

PoolAllocateTriplet ==
    /\ LET a == allocate_triplet(port_pool) IN
       /\ port_pool' = a.pool
       /\ pool_ret' = [op |-> "allocate_triplet", ok |-> a.ok, before |-> port_pool,
                     port |-> NoPort,
                     ports |-> IF a.ok THEN <<a.rdp, a.console, a.xpra>> ELSE << >>]
    /\ PoolUnchanged

PoolReleasePair ==
    /\ \E r \in RdpRange, c \in ConsoleRange :
         /\ port_pool' = release_pair(port_pool, r, c)
         /\ pool_ret' = [op |-> "release_pair", ok |-> TRUE, before |-> port_pool,
                         port |-> NoPort, ports |-> <<r, c>>]
    /\ PoolUnchanged

PoolReleaseTriplet ==
    /\ \E r \in RdpRange, c \in ConsoleRange, x \in XpraRange :
         /\ port_pool' = release_triplet(port_pool, r, c, x)
         /\ pool_ret' = [op |-> "release_triplet", ok |-> TRUE, before |-> port_pool,
                         port |-> NoPort, ports |-> <<r, c, x>>]
    /\ PoolUnchanged

\* Ports a caller may ask to register: those of the range and the one just
\* past its end.
RegisterableRdp == rdp_start..rdp_end
RegisterableConsole == console_start..console_end
RegisterableXpra == xpra_start..xpra_end

\* A single release, of any port a caller may name.
PoolReleaseRdp ==
    /\ \E port \in RegisterableRdp :
         /\ port_pool' = release_rdp(port_pool, port)
         /\ pool_ret' = [op |-> "release_rdp", ok |-> TRUE, before |-> port_pool,
                         port |-> port, ports |-> << >>]
    /\ PoolUnchanged

PoolReleaseConsole ==
    /\ \E port \in RegisterableConsole :
         /\ port_pool' = release_console(port_pool, port)
         /\ pool_ret' = [op |-> "release_console", ok |-> TRUE, before |-> port_pool,
                         port |-> port, ports |-> << >>]
    /\ PoolUnchanged

PoolReleaseXpra ==
    /\ \E port \in RegisterableXpra :
         /\ port_pool' = release_xpra(port_pool, port)
         /\ pool_ret' = [op |-> "release_xpra", ok |-> TRUE, before |-> port_pool,
                         port |-> port, ports |-> << >>]
    /\ PoolUnchanged

PoolAddExistingRdp ==
    /\ \E port \in RegisterableRdp :
         LET a == add_existing_rdp(port_pool, port) IN
         /\ port_pool' = a.pool
         /\ pool_ret' = [op |-> "add_existing_rdp", ok |-> a.ok, before |-> port_pool,
                         port |-> port, ports |-> << >>]
    /\ PoolUnchanged

PoolAddExistingConsole ==
    /\ \E port \in RegisterableConsole :
         LET a == add_existing_console(port_pool, port) IN
         /\ port_pool' = a.pool
         /\ pool_ret' = [op |-> "add_existing_console", ok |-> a.ok, before |-> port_pool,
                         port |-> port, ports |-> << >>]
    /\ PoolUnchanged

PoolAddExistingXpra ==
    /\ \E port \in RegisterableXpra :
         LET a == add_existing_xpra(port_pool, port) IN
         /\ port_pool' = a.pool
         /\ pool_ret' = [op |-> "add_existing_xpra", ok |-> a.ok, before |-> port_pool,
                         port |-> port, ports |-> << >>]
    /\ PoolUnchanged

PoolNext ==
    \/ PoolAllocateRdp
    \/ PoolAllocateConsole
    \/ PoolAllocateXpra
    \/ PoolAllocateUntilExhausted
    \/ PoolAllocateReleaseAllocate
    \/ PoolAllocatePair
    \/ PoolAllocateTriplet
    \/ PoolReleasePair
    \/ PoolReleaseTriplet
    \/ PoolReleaseRdp
    \/ PoolReleaseConsole
    \/ PoolReleaseXpra
    \/ PoolAddExistingRdp
    \/ PoolAddExistingConsole
    \/ PoolAddExistingXpra

SpecPool == PoolInit /\ [][PoolNext]_vars

\* ------------------------------------------------ recovery at startup

\* What the runtime can report of one container. fault "missing_name": the
\* summary has no name; "invalid_uuid": the name is the prefix followed by
\* something that is no UUID; "missing_id": the summary has no id;
\* "inspect_failed": inspect_container_for_recovery returns Err. With fault
\* "none" the name is the prefix followed by a UUID and inspection yields the
\* bound host ports.
Faults == {"none", "missing_name", "invalid_uuid", "missing_id", "inspect_failed"}

\* The bound host ports of a container: the k-th port of each range, as the
\* manager hands them out together, except that one of the three may lie
\* past the end of a range configured since.
PortOffsets == 0..(RangeSize - 1)

OutOfRange == {"none", "rdp", "console", "xpra"}

BoundPorts(i, k, out) ==
    [id |-> i, fault |-> "none",
     rdp_port |-> IF out = "rdp" THEN rdp_end ELSE rdp_start + k,
     console_port |-> IF out = "console" THEN console_end ELSE console_start + k,
     xpra_port |-> IF out = "xpra" THEN xpra_end ELSE xpra_start + k]

Summaries(i) ==
    {[NoSummary EXCEPT !.id = i, !.fault = f] : f \in Faults \ {"none"}}
        \cup {BoundPorts(i, k, out) : k \in PortOffsets, out \in OutOfRange}

\* The runtime's containers, in the order list_containers reports them.
Listing == {i \in Ids : containers[i] # "absent"}

NextListed(i) ==
    /\ i \in Listing
    /\ i > recovery.scanned
    /\ \A j \in Listing : j > recovery.scanned => j >= i

\* The rebuilt Instance taken to be running whatever the runtime reports.
RecoveredAsRunning(d) ==
    [container_id |-> d.id, vnc_port |-> d.rdp_port, console_port |-> d.console_port,
     xpra_port |-> d.xpra_port, status |-> Running]

\* state.rs 72-81: the Instance rebuilt from RecoveredInstanceInfo; rdp_port
\* is the port routes.rs reads as vnc_port.
RecoveredInstance(d) ==
    [container_id |-> d.id, vnc_port |-> d.rdp_port, console_port |-> d.console_port,
     xpra_port |-> d.xpra_port, status |-> map_docker_status(InspectState(d.id))]

\* state.rs 41-93, one iteration for the listed container d. A summary
\* without a name never gets here (list_containers_with_prefix drops it); an
\* invalid UUID or a failed inspection goes on to the next container; a
\* missing id returns Err through `?`; a port that add_existing_triplet
\* refuses goes on to the next container with the pool as that call left it.
RecoverOne(d) ==
    LET a == add_existing_triplet(port_pool, d.rdp_port, d.console_port, d.xpra_port) IN
    /\ port_pool' = IF d.fault = "none" THEN a.pool ELSE port_pool
    /\ instances' = IF d.fault = "none" /\ a.ok
                    THEN (d.id :> RecoveredInstance(d)) @@ instances ELSE instances
    /\ recovery' = [pc |-> IF d.fault = "missing_id" THEN "failed" ELSE "scan",
                    scanned |-> d.id,
                    recovered_count |-> IF d.fault = "none" /\ a.ok
                                        THEN recovery.recovered_count + 1
                                        ELSE recovery.recovered_count,
                    last |-> d]

\* state.rs 33-39: DockerManager::new or list_containers failing returns Err
\* before anything is scanned.
RecoverConnect ==
    /\ recovery.pc = "start"
    /\ \E connected \in BOOLEAN :
         recovery' = [recovery EXCEPT !.pc = IF connected THEN "scan" ELSE "failed"]
    /\ UNCHANGED <<instances, port_pool, lock, files, containers, creq, reqs, released, pool_ret, call>>

RecoverContainer(i) ==
    /\ recovery.pc = "scan"
    /\ NextListed(i)
    /\ \E d \in Summaries(i) : RecoverOne(d)
    /\ UNCHANGED <<lock, files, containers, creq, reqs, released, pool_ret, call>>

\* state.rs 95-96: the listing is exhausted, Ok(recovered_count).
RecoverFinish ==
    /\ recovery.pc = "scan"
    /\ \A i \in Ids : ~NextListed(i)
    /\ recovery' = [recovery EXCEPT !.pc = "done", !.last = NoSummary]
    /\ UNCHANGED <<instances, port_pool, lock, files, containers, creq, reqs, released, pool_ret, call>>

\* main.rs 32-35: AppState::new, then recover_instances against whatever
\* containers the runtime holds.
RecoverInit ==
    /\ instances = << >>
    /\ port_pool = PortPoolNew
    /\ lock = [writer |-> NoHolder, readers |-> {}]
    /\ files = {}
    /\ containers \in [Ids -> {"absent", "created", "running", "exited"}]
    /\ \E n \in 0..MaxContainers : Listing = 1..n
    /\ creq = [i \in Ids |-> IdleCreate]
    /\ reqs = [s \in Slots |-> IdleRequest]
    /\ released = [i \in Ids |-> 0]
    /\ pool_ret = NoCall(PortPoolNew)
    /\ recovery = [pc |-> "start", scanned |-> 0, recovered_count |-> 0, last |-> NoSummary]
    /\ call = NoneCalled

\* Startup, then the recovered instances being deleted.
RecoverNext ==
    \/ RecoverConnect
    \/ \E i \in Ids : RecoverContainer(i)
    \/ RecoverFinish
    \/ \E s \in Slots, id \in Ids : DeleteRead(s, id)
    \/ \E s \in Slots : DeleteRemove(s)
    \/ \E s \in Slots : DeleteCommit(s)

SpecRecover == RecoverInit /\ [][RecoverNext]_vars

\* ------------------------------------------ identifier resolution (CLI)

\* Bound: how many instances the server lists to the client.
MaxListed == 3

UUID_LENGTH == 36

\* Identifiers are strings of UUID_LENGTH characters, here sequences of
\* one-character strings. Uuid(k, c) is "0" everywhere but for c at
\* position k, so that two identifiers first differ at the smaller of their
\* positions (at the position itself when only the character differs).
Uuid(k, c) == [n \in 1..UUID_LENGTH |-> IF n = k THEN c ELSE "0"]

DiffPositions == {1, 9, 13, 36}

Uuids == {Uuid(k, c) : k \in DiffPositions, c \in {"a", "b"}}

\* What list_instances can return: the ids of the registered instances, no
\* id twice, or an error.
Listings ==
    {l \in UNION {[1..n -> Uuids] : n \in 0..MaxListed} :
        \A i, j \in 1..Len(l) : i # j => l[i] # l[j]}

Clients == [ok : BOOLEAN, instances : Listings]

\* &id[..n]
Take(id, n) == SubSeq(id, 1, n)

Min(a, b) == IF a < b THEN a ELSE b

RECURSIVE TrimStart(_)
TrimStart(str) ==
    IF str # << >> /\ Head(str) = " " THEN TrimStart(Tail(str)) ELSE str

RECURSIVE TrimEnd(_)
TrimEnd(str) ==
    IF str # << >> /\ str[Len(str)] = " " THEN TrimEnd(SubSeq(str, 1, Len(str) - 1))
    ELSE str

\* str::trim
Trim(str) == TrimEnd(TrimStart(str))

\* The prefix test that looks at the first character only.
StartsWithFirstChar(id, prefix) ==
    prefix = << >> \/ (id # << >> /\ id[1] = prefix[1])

\* str::starts_with
starts_with(id, prefix) ==
    Len(prefix) <= Len(id) /\ Take(id, Len(prefix)) = prefix

\* The outcomes of resolve_instance_id. listed: whether list_instances was
\* called.
ResolveOk(id, listed) == [kind |-> "Ok", value |-> id, matches |-> << >>, listed |-> listed]
ResolveNotFound(prefix) == [kind |-> "NotFound", value |-> prefix, matches |-> << >>, listed |-> TRUE]
ResolveAmbiguous(prefix, matches) ==
    [kind |-> "Ambiguous", value |-> prefix, matches |-> matches, listed |-> TRUE]
ResolveApiError == [kind |-> "ApiError", value |-> << >>, matches |-> << >>, listed |-> TRUE]

\* The resolver that asks the server about identifiers of full length too.
ResolveAlwaysListing(client, input) ==
    LET trimmed == Trim(input)
        matching == SelectSeq(client.instances, LAMBDA id : starts_with(id, trimmed))
    IN  IF ~client.ok THEN ResolveApiError
        ELSE CASE Len(matching) = 0 -> ResolveNotFound(trimmed)
               [] Len(matching) = 1 -> ResolveOk(matching[1], TRUE)
               [] OTHER -> ResolveAmbiguous(trimmed, matching)

resolve_instance_id(client, input) ==
    LET trimmed == Trim(input) IN
    IF Len(trimmed) = UUID_LENGTH THEN ResolveOk(trimmed, FALSE)
    ELSE IF ~client.ok THEN ResolveApiError
    ELSE LET matching == SelectSeq(client.instances, LAMBDA id : starts_with(id, trimmed))
         IN  CASE Len(matching) = 0 -> ResolveNotFound(trimmed)
               [] Len(matching) = 1 -> ResolveOk(matching[1], TRUE)
               [] OTHER -> ResolveAmbiguous(trimmed, matching)

\* `prefixes.iter().collect::<HashSet<_>>()`
PrefixSet(ids, length) == {Take(ids[n], Min(length, Len(ids[n]))) : n \in 1..Len(ids)}

RECURSIVE SafeLengthFrom(_, _)
\* The loop of calculate_safe_id_length, entered with `length`.
SafeLengthFrom(ids, length) ==
    IF Cardinality(PrefixSet(ids, length)) = Len(ids) THEN length
    ELSE IF length >= 36 THEN 36
    ELSE SafeLengthFrom(ids, length + 4)

\* The safe length whose search starts at 12 characters.
SafeLengthFromTwelve(ids) ==
    IF ids = << >> THEN 8 ELSE SafeLengthFrom(ids, 12)

calculate_safe_id_length(ids) ==
    IF ids = << >> THEN 8 ELSE SafeLengthFrom(ids, 8)

RECURSIVE MinLengthFrom(_, _)
\* The loop of suggest_min_length, entered with `length`.
MinLengthFrom(ids, length) ==
    IF length >= 36 THEN 36
    ELSE IF Cardinality(PrefixSet(ids, length)) = Len(ids) THEN length
    ELSE MinLengthFrom(ids, length + 1)

\* The suggestion whose search starts at 8 characters.
SuggestFromEight(ids) ==
    IF Len(ids) <= 1 THEN 1 ELSE MinLengthFrom(ids, 8)

suggest_min_length(ids) ==
    IF Len(ids) <= 1 THEN 1 ELSE MinLengthFrom(ids, 1)

\* ------------------------------------------------ functions on their own

\* The container states the runtime reports: a paused or restarting
\* container counts as running; either field can be missing in the response.
RuntimeStates ==
    {[running |-> "true", status |-> "running"],
     [running |-> "true", status |-> "paused"],
     [running |-> "true", status |-> "restarting"],
     [running |-> "false", status |-> "created"],
     [running |-> "false", status |-> "exited"],
     [running |-> "false", status |-> "dead"],
     [running |-> "false", status |-> "removing"],
     [running |-> "false", status |-> "none"],
     [running |-> "none", status |-> "none"]}

\* What a user types for an identifier: a prefix of an identifier, possibly
\* with blanks around it.
PrefixLengths == {0, 1, 2, 9, 13, UUID_LENGTH}
ResolveInputs ==
    LET prefixes == {Take(u, n) : u \in Uuids, n \in PrefixLengths}
    IN  prefixes \cup {<<" ">> \o p \o <<" ">> : p \in prefixes}

FunctionsInit ==
    /\ instances = << >>
    /\ port_pool = PortPoolNew
    /\ lock = [writer |-> NoHolder, readers |-> {}]
    /\ files = {}
    /\ containers = [i \in Ids |-> "absent"]
    /\ creq = [i \in Ids |-> IdleCreate]
    /\ reqs = [s \in Slots |-> IdleRequest]
    /\ released = [i \in Ids |-> 0]
    /\ pool_ret = NoCall(PortPoolNew)
    /\ recovery = [pc |-> "done", scanned |-> 0, recovered_count |-> 0, last |-> NoSummary]
    /\ call = NoneCalled

FunctionsUnchanged ==
    UNCHANGED <<instances, port_pool, lock, files, containers, creq, reqs, released,
                pool_ret, recovery>>

\* A run applies one function to one input.
Uncalled == call = NoneCalled

CallMapDockerStatus ==
    /\ Uncalled
    /\ \E state \in RuntimeStates :
         call' = [op |-> "map_docker_status", input |-> state,
                  out |-> map_docker_status(state)]
    /\ FunctionsUnchanged

CallResolveInstanceId ==
    /\ Uncalled
    /\ \E client \in Clients, input \in ResolveInputs :
         call' = [op |-> "resolve_instance_id",
                  input |-> [client |-> client, input |-> input],
                  out |-> resolve_instance_id(client, input)]
    /\ FunctionsUnchanged

CallCalculateSafeIdLength ==
    /\ Uncalled
    /\ \E ids \in Listings :
         call' = [op |-> "calculate_safe_id_length", input |-> ids,
                  out |-> calculate_safe_id_length(ids)]
    /\ FunctionsUnchanged

CallSuggestMinLength ==
    /\ Uncalled
    /\ \E ids \in Listings :
         call' = [op |-> "suggest_min_length", input |-> ids,
                  out |-> suggest_min_length(ids)]
    /\ FunctionsUnchanged

FunctionsNext ==
    \/ CallMapDockerStatus
    \/ CallResolveInstanceId
    \/ CallCalculateSafeIdLength
    \/ CallSuggestMinLength

SpecFunctions == FunctionsInit /\ [][FunctionsNext]_vars

\* ---------------------------------------------------------------- claims

Registered == DOMAIN instances

\* A live instance: a record in the registry whose status is not Error.
Live(i) == i \in Registered /\ ~IsError(instances[i].status)

\* C1: no two distinct live instances hold the same port in the same range
\* (create_instance allocates an rdp/vnc and a console port, no xpra port).
C1_LivePortsDisjoint ==
    \A i, j \in Ids :
        (i # j /\ Live(i) /\ Live(j)) =>
            /\ instances[i].vnc_port # instances[j].vnc_port
            /\ instances[i].console_port # instances[j].console_port

\* C2: the ports allocated for an instance are released at most once over
\* its lifetime, by the provisioning-failure path or by deletion, never both.
C2_ReleasedAtMostOnce == \A i \in Ids : released[i] <= 1

\* C3: a failed allocate_pair / allocate_triplet leaves every allocated set
\* exactly as it was before the call.
C3_AllocateAllOrNothing ==
    (pool_ret.op \in {"allocate_pair", "allocate_triplet"} /\ ~pool_ret.ok)
        => port_pool = pool_ret.before

\* The handler in slot s is at a Runtime Client call: it has a container to
\* ask the runtime about and its next step does so.
AtRuntimeCall(s) ==
    \/ /\ reqs[s].op = "list" /\ reqs[s].pc = "refresh"
       /\ \E item \in reqs[s].pending : item[2] # NoContainer
    \/ reqs[s].op = "logs" /\ reqs[s].pc = "call"
    \/ reqs[s].op = "get" /\ reqs[s].pc = "refresh" /\ reqs[s].container_id # NoContainer
    \/ reqs[s].op = "delete" /\ reqs[s].pc = "remove" /\ reqs[s].container_id # NoContainer
    \/ reqs[s].op \in LifecycleOps /\ reqs[s].pc = "call"

HoldsLock(s) == lock.writer = s \/ s \in lock.readers

\* C4: no handler holds the registry lock (read or write) while a Runtime
\* Client call of that handler is in progress.
C4_NoLockAcrossRuntimeCall == \A s \in Slots : AtRuntimeCall(s) => ~HoldsLock(s)

\* C5: once the failure path of provisioning has set a record's status to
\* Error(reason), the status stays Error for as long as the record exists.
C5_ProvisioningErrorTerminal ==
    [][\A i \in Ids :
          (i \in Registered /\ instances[i].status \in ProvisioningErrors
             /\ i \in DOMAIN instances')
          => IsError(instances'[i].status)]_vars

\* The step in which the background task of i finishes after a start failure.
StartFailureFinishes(i) ==
    creq[i].pc = "start_failed" /\ creq'[i].pc = "done_start_failed"

PortsFree(pool, rdp_port, console_port) ==
    rdp_port \notin pool.allocated_rdp /\ console_port \notin pool.allocated_console

\* C6 as stated: after a start failure the task ends with the container
\* removed, the status Error(reason), the ports free and the temp file gone.
C6_StartFailureCompensated ==
    [][\A i \in Ids :
          StartFailureFinishes(i) =>
             /\ containers'[i] = "removed"
             /\ i \in DOMAIN instances' /\ instances'[i].status = ErrStart
             /\ PortsFree(port_pool', creq[i].vnc_port, creq[i].console_port)
             /\ i \notin files']_vars

\* C6 amended: after a start failure the task ends with the container not
\* started (removed, or left as created when the removal itself failed), the
\* status Error(reason) if the record is still in the registry, the ports
\* free and the temp file gone.
C6_StartFailureCompensatedIfPresent ==
    [][\A i \in Ids :
          StartFailureFinishes(i) =>
             /\ containers'[i] \in {"removed", "created"}
             /\ i \in DOMAIN instances' => instances'[i].status = ErrStart
             /\ PortsFree(port_pool', creq[i].vnc_port, creq[i].console_port)
             /\ i \notin files']_vars

C6_Witness ==
    \E i \in Ids :
        /\ creq[i].pc = "done_start_failed"
        /\ containers[i] = "removed"
        /\ i \in Registered /\ instances[i].status = ErrStart
        /\ PortsFree(port_pool, creq[i].vnc_port, creq[i].console_port)

\* C7: a create request whose payload is invalid returns with the pool as it
\* was before the request, and with no container and no record created.
C7_InvalidPayloadReleasesPorts ==
    [][\A i \in Ids :
          (creq[i].pc = "idle" /\ creq'[i].pc = "invalid_dll") =>
             /\ port_pool' = port_pool
             /\ instances' = instances
             /\ containers' = containers]_vars

\* C8: a create request rejected at the ceiling inserts no record, leaves
\* its ports free and has deleted its temp payload file.
C8_CapacityErrorLeavesNoTrace ==
    [][\A i \in Ids :
          (creq[i].pc = "written" /\ creq'[i].pc = "max_instances_reached") =>
             /\ instances' = instances
             /\ PortsFree(port_pool', creq[i].vnc_port, creq[i].console_port)
             /\ i \notin files']_vars

CreateSucceeded(i) == containers[i] # "absent"

\* C10 as stated: a record's container_id is non-empty if and only if the
\* create-container step has succeeded for that instance.
C10_ContainerIdIffCreated ==
    \A i \in Registered :
        instances[i].container_id # NoContainer <=> CreateSucceeded(i)

\* The background task of i has run to completion, by its success path or
\* by its failure path.
TaskCompleted(i) == creq[i].pc \in {"done"} \cup {"done_" \o pc : pc \in TaskFailedPcs}

\* C11: under fair scheduling the background task of every accepted create
\* request eventually runs to completion, by success or by failure, and no
\* instance that stays in the registry stays in Creating forever.
C11_TaskCompletesAndLeavesCreating ==
    \A i \in Ids :
        /\ (creq[i].pc = "spawned") ~> TaskCompleted(i)
        /\ []<>(i \notin Registered \/ instances[i].status # Creating)

\* The completion half of C11 alone.
C11_TaskCompletes == \A i \in Ids : (creq[i].pc = "spawned") ~> TaskCompleted(i)

\* C12: the step that removes an instance's record also leaves every port the
\* record held (rdp, console and xpra) available in the pool, so that no
\* state has the record gone and one of its ports still allocated.
C12_DeleteDropsRecordAndPorts ==
    [][\A i \in Ids :
          (i \in Registered /\ i \notin DOMAIN instances') =>
             /\ instances[i].vnc_port \notin port_pool'.allocated_rdp
             /\ instances[i].console_port \notin port_pool'.allocated_console
             /\ instances[i].xpra_port \notin port_pool'.allocated_xpra]_vars

\* The step in which recovery handles a container with well-formed name and
\* id, inspected successfully, one of whose ports lies outside its range.
SkipsOutOfRange ==
    /\ recovery.pc = "scan" /\ recovery'.scanned # recovery.scanned
    /\ recovery'.last.fault = "none"
    /\ \/ recovery'.last.rdp_port \notin RdpRange
       \/ recovery'.last.console_port \notin ConsoleRange
       \/ recovery'.last.xpra_port \notin XpraRange

\* C13: when a container has a port outside its configured range, recovery
\* skips it, inserts no record and leaves the port pool exactly as it was.
C13_OutOfRangeLeavesPoolAlone ==
    [][SkipsOutOfRange => (instances' = instances /\ port_pool' = port_pool)]_vars

\* The step in which recovery handles one listed container.
HandlesContainer == recovery.pc = "scan" /\ recovery'.scanned # recovery.scanned

\* The container handled has a failure of its own: no valid UUID in its
\* name, no name, no id, a failed inspection or a port out of range.
FailsOnItsOwn == recovery'.last.fault # "none" \/ SkipsOutOfRange

\* C14: a failure on one container skips that container only, the scan goes
\* on with the next one, and the count returned at the end is the number of
\* records inserted.
C14_FailureSkipsOneContainer ==
    [][/\ (HandlesContainer /\ FailsOnItsOwn) =>
             (recovery'.pc = "scan" /\ instances' = instances)
       /\ (recovery.pc = "scan" /\ recovery'.pc = "done") =>
             recovery'.recovered_count = Cardinality(DOMAIN instances')]_vars

\* C15: when recover_instances returns an error, the server starts with no
\* instance record and no port marked allocated, whatever had been scanned.
C15_FailedRecoveryStartsEmpty ==
    [][(recovery.pc # "failed" /\ recovery'.pc = "failed") =>
          (instances' = << >> /\ port_pool' = PortPoolNew)]_vars

\* The container handled has a well-formed name and id, is inspected
\* successfully and has every bound port inside its range.
HandlesRecoverable ==
    /\ HandlesContainer
    /\ recovery'.last.fault = "none"
    /\ recovery'.last.rdp_port \in RdpRange
    /\ recovery'.last.console_port \in ConsoleRange
    /\ recovery'.last.xpra_port \in XpraRange

\* The instance status that corresponds to a runtime state.
StatusOfRuntimeState(state) ==
    CASE state = "running" -> Running
      [] state = "exited" -> Stopped
      [] state = "created" -> Creating

Merges(s) ==
    \/ reqs[s].op = "get" /\ reqs[s].pc = "commit" /\ reqs'[s].pc = "done"
    \/ /\ reqs[s].op = "list" /\ reqs[s].pc = "refresh"
       /\ reqs'[s].pending # reqs[s].pending

\* The instance the merge is about, and the refresh result merged.
MergedId(s) == IF reqs[s].op = "get" THEN reqs[s].id ELSE reqs'[s].id

MergedResult(s) == IF reqs[s].op = "get" THEN reqs[s].res ELSE reqs'[s].res

\* C17: when list or get learns that the container of a registered instance
\* is not found, the merge sets that record's status to Error("Container
\* deleted externally") and changes nothing else of the registry or the pool;
\* a record in that status leaves the registry only in the commit of a delete
\* request for it.
C17_NotFoundKeepsRecordAndPorts ==
    [][/\ \A s \in Slots :
             (Merges(s) /\ MergedResult(s) = "None" /\ MergedId(s) \in Registered) =>
                /\ instances' = [instances EXCEPT ![MergedId(s)].status = ErrDeletedExternally]
                /\ port_pool' = port_pool
       /\ \A i \in Registered :
             (instances[i].status = ErrDeletedExternally /\ i \notin DOMAIN instances') =>
                \E s \in Slots :
                    /\ reqs[s].op = "delete" /\ reqs[s].pc = "commit" /\ reqs[s].id = i
                    /\ reqs'[s].pc = "done"]_vars

\* A registered instance whose container is gone carries the status and
\* still has its ports allocated.
C17_Witness ==
    \E i \in Registered :
        /\ instances[i].status = ErrDeletedExternally
        /\ containers[i] = "removed"
        /\ instances[i].vnc_port \in port_pool.allocated_rdp
        /\ instances[i].console_port \in port_pool.allocated_console

\* C18: in the bulk refresh of list_instances a runtime communication
\* failure for one instance leaves the registry as it was and the loop goes
\* on; every other result is merged into its record; the call returns Ok.
C18_RefreshFailureIsLocal ==
    [][\A s \in Slots :
          /\ (reqs[s].op = "list" /\ Merges(s) /\ MergedResult(s) = "Err") =>
                (instances' = instances /\ reqs'[s].pc = "refresh")
          /\ (reqs[s].op = "list" /\ Merges(s) /\ MergedResult(s) \notin {"Err", "None"}
                 /\ MergedId(s) \in Registered) =>
                instances'[MergedId(s)].status = MergedResult(s)
          /\ (reqs[s].op = "list" /\ reqs'[s].pc = "done") => reqs'[s].res = "Ok"]_vars

\* A bulk refresh has just failed to reach the runtime for one registered
\* instance, whose status it kept, and has another instance still to refresh.
C18_Witness ==
    \E s \in Slots :
        /\ reqs[s].op = "list" /\ reqs[s].pc = "refresh" /\ reqs[s].res = "Err"
        /\ reqs[s].id \in Registered /\ instances[reqs[s].id].status = Running
        /\ \E item \in reqs[s].pending : item[1] # reqs[s].id /\ item[2] # NoContainer

\* The last pool call asked to register a port outside its range.
RegisteredOutside ==
    \/ pool_ret.op = "add_existing_rdp" /\ pool_ret.port \notin RdpRange
    \/ pool_ret.op = "add_existing_console" /\ pool_ret.port \notin ConsoleRange
    \/ pool_ret.op = "add_existing_xpra" /\ pool_ret.port \notin XpraRange

\* C19: after any sequence of allocate, release and register-existing calls
\* each allocated set holds ports of its own range only; registering a port
\* outside its range fails and leaves the pool as it was.
C19_AllocatedWithinRanges ==
    /\ port_pool.allocated_rdp \subseteq RdpRange
    /\ port_pool.allocated_console \subseteq ConsoleRange
    /\ port_pool.allocated_xpra \subseteq XpraRange
    /\ RegisteredOutside => (~pool_ret.ok /\ port_pool = pool_ret.before)

\* An out-of-range registration has been refused while the pool holds ports.
C19_Witness ==
    /\ RegisteredOutside /\ ~pool_ret.ok
    /\ port_pool.allocated_rdp # {} /\ port_pool.allocated_xpra # {}

\* C20: when the container has been created and started and the record is
\* still in the registry, the task's last step sets the record's container_id
\* to the container's id and its status to Running together, changes no other
\* record and leaves the temp payload files as they are.
C20_SuccessCommitsIdAndRunning ==
    [][\A i \in Ids :
          (creq[i].pc = "started" /\ creq'[i].pc = "done" /\ i \in Registered) =>
             /\ instances' = [instances EXCEPT ![i].container_id = i, ![i].status = Running]
             /\ containers[i] = "running" \/ containers[i] = "removed"
             /\ files' = files]_vars

\* A provisioned instance: committed, Running, its payload file still there.
C20_Witness ==
    \E i \in Registered :
        /\ creq[i].pc = "done"
        /\ instances[i].container_id = i /\ instances[i].status = Running
        /\ containers[i] = "running"
        /\ i \in files

\* The step in which the stop, start or restart handler in slot s commits
\* after its runtime call has succeeded, the instance still registered.
LifecycleSucceeds(s, op) ==
    /\ reqs[s].op = op /\ reqs[s].pc = "commit" /\ reqs'[s].pc = "done"
    /\ reqs[s].id \in Registered

\* C21: a successful stop leaves the instance Stopped, a successful start
\* leaves it Running and a successful restart leaves it Running, also when it
\* was Running before.
C21_LifecycleFollowsStateMachine ==
    [][\A s \in Slots :
          /\ LifecycleSucceeds(s, "stop") =>
                (instances'[reqs[s].id].status = "Stopped" /\ reqs'[s].res = "Stopped")
          /\ LifecycleSucceeds(s, "start") =>
                (instances'[reqs[s].id].status = "Running" /\ reqs'[s].res = "Running")
          /\ LifecycleSucceeds(s, "restart") =>
                (instances'[reqs[s].id].status = "Running" /\ reqs'[s].res = "Running")]_vars

\* An instance has been stopped: its container has exited and its record
\* says Stopped.
C21_Witness ==
    \E s \in Slots, i \in Registered :
        /\ reqs[s].op = "stop" /\ reqs[s].pc = "done" /\ reqs[s].res = "Stopped"
        /\ instances[i].status = "Stopped" /\ containers[i] = "exited"

\* The operations that reconcile or drive the status of existing instances.
StatusOps == {"list", "get"} \cup LifecycleOps

\* Everything of a record but its status.
Identity(rec) == [rec EXCEPT !.status = "any"]

\* C22: a step of list, get, stop, start or restart changes at most the
\* status field of records: it inserts and removes no record, changes no
\* container_id or port of a record and leaves the port pool as it is.
C22_StatusOpsChangeStatusOnly ==
    [][\A s \in Slots :
          (reqs'[s] # reqs[s] /\ reqs'[s].op \in StatusOps) =>
             /\ DOMAIN instances' = DOMAIN instances
             /\ \A i \in DOMAIN instances : Identity(instances'[i]) = Identity(instances[i])
             /\ port_pool' = port_pool]_vars

\* A get has rewritten the status of an instance whose container is gone;
\* the record still names its container and ports.
C22_Witness ==
    \E s \in Slots, i \in Registered :
        /\ reqs[s].op = "get" /\ reqs[s].pc = "done"
        /\ instances[i].status = ErrDeletedExternally
        /\ instances[i].container_id = i
        /\ instances[i].vnc_port = creq[i].vnc_port
        /\ instances[i].console_port = creq[i].console_port

\* The status the runtime state string alone would yield.
StatusOfStateString(status) ==
    CASE status = "running" -> "Running"
      [] status \in {"exited", "paused"} -> "Stopped"
      [] status = "created" -> "Creating"
      [] OTHER -> "Error: Container state: " \o status

\* C23: the status map_docker_status returns for a container that reports a
\* state string is determined by that string: running gives Running, exited
\* and paused give Stopped, created gives Creating, anything else an Error
\* with that string.
C23_StatusFollowsStateString ==
    (call.op = "map_docker_status" /\ call.input.status # "none") =>
        call.out = StatusOfStateString(call.input.status)

\* The identifier begins with the characters of the prefix.
BeginsWith(id, prefix) ==
    /\ Len(prefix) <= Len(id)
    /\ \A n \in 1..Len(prefix) : id[n] = prefix[n]

\* A resolution of a prefix shorter than an identifier, the list obtained.
ResolvedPrefix ==
    /\ call.op = "resolve_instance_id"
    /\ call.input.client.ok
    /\ Len(Trim(call.input.input)) < UUID_LENGTH

\* The positions of the listed instances that the typed prefix selects.
Selected ==
    {n \in 1..Len(call.input.client.instances) :
        BeginsWith(call.input.client.instances[n], Trim(call.input.input))}

\* C24: resolving a prefix shorter than an identifier yields NotFound when no
\* listed id begins with it, the full id when exactly one does, and Ambiguous
\* with every matching instance when several do.
C24_PrefixResolvesByMatchCount ==
    ResolvedPrefix =>
        /\ Selected = {} => call.out.kind = "NotFound"
        /\ Cardinality(Selected) = 1 =>
              /\ call.out.kind = "Ok"
              /\ \E n \in Selected : call.out.value = call.input.client.instances[n]
        /\ Cardinality(Selected) > 1 =>
              /\ call.out.kind = "Ambiguous"
              /\ Len(call.out.matches) = Cardinality(Selected)
              /\ {call.out.matches[m] : m \in 1..Len(call.out.matches)}
                    = {call.input.client.instances[n] : n \in Selected}

\* A prefix of one character selects two of three listed instances.
C24_Witness ==
    /\ ResolvedPrefix
    /\ Len(Trim(call.input.input)) = 1
    /\ Len(call.input.client.instances) = 3
    /\ call.out.kind = "Ambiguous" /\ Len(call.out.matches) = 2

\* C25: an input that is UUID_LENGTH characters long once trimmed is returned
\* as it is, without a list call, known to the server or not.
C25_FullIdReturnedWithoutLookup ==
    (call.op = "resolve_instance_id" /\ Len(Trim(call.input.input)) = UUID_LENGTH) =>
        /\ call.out.kind = "Ok"
        /\ call.out.value = Trim(call.input.input)
        /\ ~call.out.listed

\* A full identifier that no listed instance has is resolved to itself.
C25_Witness ==
    /\ call.op = "resolve_instance_id"
    /\ Len(call.input.input) = UUID_LENGTH
    /\ call.input.client.ok
    /\ \A n \in 1..Len(call.input.client.instances) :
          call.input.client.instances[n] # call.input.input
    /\ call.out.kind = "Ok" /\ call.out.value = call.input.input

\* C26: resolving an input that is empty once trimmed ends in Ambiguous with
\* all listed instances, whatever the list.
C26_EmptyInputIsAmbiguous ==
    (call.op = "resolve_instance_id" /\ call.input.client.ok
        /\ Trim(call.input.input) = << >>) =>
        /\ call.out.kind = "Ambiguous"
        /\ call.out.matches = call.input.client.instances

\* The lengths calculate_safe_id_length chooses from.
SafeLengths == {8 + 4 * k : k \in 0..7}

\* The prefixes of the given length tell the listed ids apart.
Distinguishes(ids, length) ==
    \A i, j \in 1..Len(ids) :
        i # j => Take(ids[i], Min(length, Len(ids[i]))) # Take(ids[j], Min(length, Len(ids[j])))

\* C27: calculate_safe_id_length gives 8 for an empty list and otherwise the
\* least of 8, 12, ..., 36 whose prefixes tell the ids apart (36 if none
\* does); the result lies in 8..36, and is at least 12 when two ids share
\* their first 8 characters.
C27_SafeLengthIsLeastStepOfFour ==
    call.op = "calculate_safe_id_length" =>
        /\ call.input = << >> => call.out = 8
        /\ call.out \in 8..36
        /\ call.input # << >> =>
              IF \E l \in SafeLengths : Distinguishes(call.input, l)
              THEN /\ call.out \in SafeLengths
                   /\ Distinguishes(call.input, call.out)
                   /\ \A l \in SafeLengths : l < call.out => ~Distinguishes(call.input, l)
              ELSE call.out = 36
        /\ ~Distinguishes(call.input, 8) => call.out >= 12

\* Ids that share their first 8 characters and differ at the ninth get 12.
C27_Witness ==
    /\ call.op = "calculate_safe_id_length"
    /\ Len(call.input) >= 2
    /\ ~Distinguishes(call.input, 8)
    /\ call.out = 12

\* C28: suggest_min_length gives 1 for at most one instance and otherwise the
\* least length in 1..35 whose prefixes tell the ids apart, 36 if there is
\* none; no shorter length tells them apart.
C28_SuggestedLengthIsMinimal ==
    call.op = "suggest_min_length" =>
        /\ Len(call.input) <= 1 => call.out = 1
        /\ Len(call.input) > 1 =>
              /\ call.out \in 1..36
              /\ IF \E l \in 1..35 : Distinguishes(call.input, l)
                 THEN Distinguishes(call.input, call.out)
                 ELSE call.out = 36
              /\ \A l \in 1..(call.out - 1) : ~Distinguishes(call.input, l)

\* Three ids of which two share twelve characters: the suggestion is 13.
C28_Witness ==
    /\ call.op = "suggest_min_length"
    /\ Len(call.input) = 3
    /\ call.out = 13
    /\ ~Distinguishes(call.input, 12)

\* The call took the lowest free port of the range, or failed with the
\* range full and the pool as it was.
TookLowestFree(range, allocated_before, allocated_now) ==
    LET free == range \ allocated_before IN
    IF free = {}
    THEN ~pool_ret.ok /\ pool_ret.port = NoPort /\ allocated_now = allocated_before
    ELSE /\ pool_ret.ok
         /\ pool_ret.port \in free
         /\ \A q \in free : pool_ret.port <= q
         /\ allocated_now = allocated_before \cup {pool_ret.port}

\* C29: a single-range allocation returns the lowest free port of its range
\* and fails exactly when the range is full; a fresh pool hands out the first
\* port of each range, and yields as many triplets as a range has ports
\* before it reports exhaustion.
C29_AllocationTakesLowestFree ==
    /\ pool_ret.op = "allocate_rdp" =>
          TookLowestFree(RdpRange, pool_ret.before.allocated_rdp, port_pool.allocated_rdp)
    /\ pool_ret.op = "allocate_console" =>
          TookLowestFree(ConsoleRange, pool_ret.before.allocated_console,
                         port_pool.allocated_console)
    /\ pool_ret.op = "allocate_xpra" =>
          TookLowestFree(XpraRange, pool_ret.before.allocated_xpra, port_pool.allocated_xpra)
    /\ (pool_ret.op = "allocate_triplet" /\ pool_ret.before = PortPoolNew) =>
          pool_ret.ports = <<rdp_start, console_start, xpra_start>>
    /\ (pool_ret.op = "until_exhausted" /\ pool_ret.before = PortPoolNew) =>
          /\ Len(pool_ret.ports) = rdp_end - rdp_start
          /\ \A n \in 1..Len(pool_ret.ports) :
                pool_ret.ports[n] = <<rdp_start + n - 1, console_start + n - 1,
                                      xpra_start + n - 1>>

\* A fresh pool has been emptied, triplet by triplet, down to exhaustion.
C29_Witness ==
    /\ pool_ret.op = "until_exhausted"
    /\ pool_ret.before = PortPoolNew
    /\ Len(pool_ret.ports) = RangeSize
    /\ port_pool.allocated_rdp = RdpRange

\* C30: allocating a triplet, releasing it and allocating again returns the
\* same triplet, from every pool; and after a release the released ports are
\* free, the next allocation on each range succeeding with the released port
\* or a lower one.
C30_ReleasedPortsAreReusable ==
    /\ (pool_ret.op = "allocate_release_allocate" /\ Len(pool_ret.ports) = 2) =>
          /\ pool_ret.ok
          /\ pool_ret.ports[2] = pool_ret.ports[1]
    /\ pool_ret.op \in {"release_pair", "release_triplet"} =>
          /\ pool_ret.ports[1] \notin port_pool.allocated_rdp
          /\ allocate_rdp(port_pool).port \in rdp_start..pool_ret.ports[1]
          /\ pool_ret.ports[2] \notin port_pool.allocated_console
          /\ allocate_console(port_pool).port \in console_start..pool_ret.ports[2]
    /\ pool_ret.op = "release_triplet" =>
          /\ pool_ret.ports[3] \notin port_pool.allocated_xpra
          /\ allocate_xpra(port_pool).port \in xpra_start..pool_ret.ports[3]

\* A pool with ports taken has handed out the same triplet twice, a release
\* in between.
C30_Witness ==
    /\ pool_ret.op = "allocate_release_allocate"
    /\ pool_ret.ok
    /\ pool_ret.before.allocated_rdp # {}
    /\ pool_ret.ports[1] = pool_ret.ports[2]
    /\ pool_ret.ports[1][1] # rdp_start

\* The three available counts of a pool.
Available(pool) == <<rdp_available(pool), console_available(pool), xpra_available(pool)>>

\* The single release just made named a port the pool did not hold.
ReleasedUnheld ==
    \/ pool_ret.op = "release_rdp" /\ pool_ret.port \notin pool_ret.before.allocated_rdp
    \/ pool_ret.op = "release_console" /\ pool_ret.port \notin pool_ret.before.allocated_console
    \/ pool_ret.op = "release_xpra" /\ pool_ret.port \notin pool_ret.before.allocated_xpra

\* C31: releasing a port the pool does not hold changes no allocated set and
\* no available count, and releasing a port a second time leaves the pool as
\* the first release left it.
C31_ReleaseIsIdempotent ==
    /\ ReleasedUnheld =>
          (port_pool = pool_ret.before /\ Available(port_pool) = Available(pool_ret.before))
    /\ pool_ret.op = "release_rdp" =>
          /\ port_pool.allocated_rdp = pool_ret.before.allocated_rdp \ {pool_ret.port}
          /\ release_rdp(port_pool, pool_ret.port) = port_pool
    /\ pool_ret.op = "release_console" =>
          /\ port_pool.allocated_console = pool_ret.before.allocated_console \ {pool_ret.port}
          /\ release_console(port_pool, pool_ret.port) = port_pool
    /\ pool_ret.op = "release_xpra" =>
          /\ port_pool.allocated_xpra = pool_ret.before.allocated_xpra \ {pool_ret.port}
          /\ release_xpra(port_pool, pool_ret.port) = port_pool

\* A console port that was free has been released, other ports being held.
C31_Witness ==
    /\ pool_ret.op = "release_console"
    /\ pool_ret.port \in ConsoleRange \ pool_ret.before.allocated_console
    /\ pool_ret.before.allocated_console # {}
    /\ port_pool = pool_ret.before

\* The step in which the handler of slot s starts on a request.
SlotTaken(s) == reqs[s].pc = "idle" /\ reqs'[s].pc # "idle"

\* The step in which a request of kind op for the identifier id arrives.
RequestArrives(s, op, id) ==
    CASE op = "get" -> GetRead(s, id)
      [] op = "delete" -> DeleteRead(s, id)
      [] op = "logs" -> LogsRead(s, id)
      [] OTHER -> LifecycleRead(s, op, id)

\* C32: a get, delete, logs, stop, start or restart request for an identifier
\* that is not in the registry is answered not-found at once: the registry
\* and the pool stay as they are and the runtime is not called.
C32_UnknownIdIsNotFound ==
    [][\A s \in Slots : SlotTaken(s) =>
          \A id \in Ids \ DOMAIN instances, op \in {"get", "delete", "logs"} \cup LifecycleOps :
             RequestArrives(s, op, id) =>
                /\ reqs'[s].op = op /\ reqs'[s].pc = "done" /\ reqs'[s].res = "NotFound"
                /\ instances' = instances
                /\ port_pool' = port_pool
                /\ containers' = containers
                /\ files' = files]_vars

\* An instance has been deleted and a second delete of it answered
\* not-found.
C32_Witness ==
    \E s, t \in Slots :
        /\ reqs[s].op = "delete" /\ reqs[s].pc = "done" /\ reqs[s].res = "NoContent"
        /\ reqs[t].op = "delete" /\ reqs[t].pc = "done" /\ reqs[t].res = "NotFound"

\* The step in which the create request for i is accepted: its task is
\* spawned and the pending response returned.
Accepted(i) == creq[i].pc # "spawned" /\ creq'[i].pc = "spawned"

\* The step in which the runtime is first asked to do something for i.
ProvisioningRuns(i) == creq[i].pc = "spawned" /\ creq'[i].pc # "spawned"

\* C33: when a create request is accepted, the record with status Creating,
\* no container_id and the ports allocated for it is in the registry before
\* the task is spawned and the response returned; the runtime has not been
\* called by then, and provisioning runs only after that insert.
C33_RecordInsertedBeforeTask ==
    [][\A i \in Ids :
          /\ Accepted(i) =>
                /\ i \notin DOMAIN instances
                /\ i \in DOMAIN instances'
                /\ instances'[i] = [container_id |-> NoContainer, status |-> "Creating",
                                    vnc_port |-> creq[i].vnc_port,
                                    console_port |-> creq[i].console_port]
                /\ creq[i].vnc_port \in RdpRange /\ creq[i].console_port \in ConsoleRange
                /\ containers' = containers /\ containers[i] = "absent"
          /\ containers'[i] # containers[i] /\ containers[i] = "absent" => ProvisioningRuns(i)
          /\ (creq'[i].pc # creq[i].pc /\ creq'[i].pc \in {"started"} \cup TaskFailedPcs)
                => ProvisioningRuns(i)]_vars

\* A request has been accepted: the record is there, Creating, and the
\* runtime has not been asked for anything yet.
C33_Witness ==
    \E i \in Ids :
        /\ creq[i].pc = "spawned"
        /\ i \in DOMAIN instances
        /\ instances[i].status = "Creating" /\ instances[i].container_id = NoContainer
        /\ containers[i] = "absent"

\* The step in which the stop, start or restart handler in slot s returns
\* an internal error.
LifecycleFails(s) ==
    /\ reqs[s].pc # "done"
    /\ reqs'[s].pc = "done" /\ reqs'[s].op \in LifecycleOps /\ reqs'[s].res = "Internal"

\* C34: a stop, start or restart that fails, for want of a container or
\* because the runtime call fails, answers with an internal error and leaves
\* every record, status included, as it was.
C34_FailedLifecycleKeepsRecord ==
    [][\A s \in Slots :
          /\ LifecycleFails(s) => (instances' = instances /\ port_pool' = port_pool)
          /\ SlotTaken(s) =>
                \A id \in DOMAIN instances, op \in LifecycleOps :
                   (/\ instances[id].container_id = NoContainer
                    /\ (op = "restart" \/ instances[id].status # LifecycleTarget(op))
                    /\ RequestArrives(s, op, id))
                      => LifecycleFails(s)
          /\ (reqs[s].op \in LifecycleOps /\ reqs[s].pc = "call"
                /\ reqs'[s] # reqs[s] /\ ~ContainerExists(reqs[s].container_id))
                   => LifecycleFails(s)]_vars

\* A stop has failed on an instance whose container was removed behind the
\* manager's back; the record still says Running.
C34_Witness ==
    \E s \in Slots, i \in Registered :
        /\ reqs[s].op = "stop" /\ reqs[s].pc = "done" /\ reqs[s].res = "Internal"
        /\ instances[i].status = "Running" /\ containers[i] = "removed"

\* C35: stop on a record that says Stopped and start on a record that says
\* Running answer with that status at once: no runtime call, no state
\* changed.
C35_AlreadyThereShortcut ==
    [][\A s \in Slots : SlotTaken(s) =>
          \A id \in DOMAIN instances :
             /\ (instances[id].status = "Stopped" /\ RequestArrives(s, "stop", id)) =>
                   /\ reqs'[s].pc = "done" /\ reqs'[s].res = "Stopped"
                   /\ UNCHANGED <<instances, port_pool, containers, files, lock>>
             /\ (instances[id].status = "Running" /\ RequestArrives(s, "start", id)) =>
                   /\ reqs'[s].pc = "done" /\ reqs'[s].res = "Running"
                   /\ UNCHANGED <<instances, port_pool, containers, files, lock>>]_vars

\* Start has been answered Running for an instance whose record says
\* Running while its container is gone: the runtime was not asked.
C35_Witness ==
    \E s \in Slots, i \in Registered :
        /\ reqs[s].op = "start" /\ reqs[s].pc = "done" /\ reqs[s].res = "Running"
        /\ instances[i].status = "Running" /\ containers[i] = "removed"
        /\ Cardinality(Registered) = 1

\* C36: a record that says Running or Stopped names its container, and a
\* container_id once set stays what it is for as long as the record exists.
C36_ContainerIdStable ==
    [][\A i \in DOMAIN instances' :
          /\ instances'[i].status \in {"Running", "Stopped"} =>
                instances'[i].container_id # NoContainer
          /\ (i \in DOMAIN instances /\ instances[i].container_id # NoContainer) =>
                instances'[i].container_id = instances[i].container_id]_vars

\* A provisioned instance has been stopped and still names its container.
C36_Witness ==
    \E i \in Registered :
        /\ instances[i].status = "Stopped"
        /\ instances[i].container_id = i
        /\ creq[i].pc = "done"

\* A delete of i has taken its snapshot and has not returned yet.
DeleteInFlight(i) ==
    \E s \in Slots : reqs[s].op = "delete" /\ reqs[s].id = i /\ reqs[s].pc # "done"

\* The step after which both the provisioning task of i, which succeeds, and
\* a delete of i that ran while the task was in flight have completed: the
\* task commits with the record already removed, or the delete that saw no
\* container_id commits after the task. (A task that fails removes its
\* container itself; that removal is the matter of C6.)
RaceIsOver(i) ==
    \/ /\ creq[i].pc = "started" /\ creq'[i].pc = "done"
       /\ i \notin Registered
       /\ ~DeleteInFlight(i)
    \/ /\ creq[i].pc = "done"
       /\ \E s \in Slots :
            /\ reqs[s].op = "delete" /\ reqs[s].id = i /\ reqs[s].pc = "commit"
            /\ reqs[s].container_id = NoContainer
            /\ reqs'[s].pc = "done"

\* C37: once a delete that ran during provisioning and the provisioning task
\* have both completed, the runtime holds no container of the instance, so
\* none that binds a port the pool has free.
C37_DeleteDuringProvisioningLeavesNoOrphan ==
    [][\A i \in Ids :
          RaceIsOver(i) =>
             /\ containers'[i] \notin {"created", "running", "exited"}
             /\ (containers'[i] \in {"created", "running", "exited"} =>
                    /\ creq[i].vnc_port \in port_pool'.allocated_rdp
                    /\ creq[i].console_port \in port_pool'.allocated_console)]_vars

\* C38: once provisioning has committed container_id and Running and the
\* container is running, no list or get leaves the record in Creating, not
\* even one whose snapshot was taken before the commit.
C38_NoStaleCreating ==
    [][\A s \in Slots, i \in Registered :
          (/\ reqs[s].op \in {"list", "get"} /\ reqs'[s] # reqs[s]
           /\ creq[i].pc = "done"
           /\ instances[i].container_id # NoContainer
           /\ containers[i] = "running"
           /\ i \in DOMAIN instances')
            => instances'[i].status # "Creating"]_vars

\* C39: every port of a record whose status is Creating, Running or Stopped
\* is allocated in the pool.
C39_LivePortsAllocated ==
    \A i \in Registered :
        instances[i].status \in {"Creating", "Running", "Stopped"} =>
            /\ instances[i].vnc_port \in port_pool.allocated_rdp
            /\ instances[i].console_port \in port_pool.allocated_console

\* The handler in slot s holds a guard of the registry lock between steps.
HoldsGuard(s) == lock.writer = s \/ s \in lock.readers

\* The create request for i and the task it spawned, if any, are over.
CreateOver(i) ==
    \/ creq[i].pc \in {"ports_exhausted", "invalid_dll", "max_instances_reached"}
    \/ TaskCompleted(i)

\* Every request that has arrived has returned, and every create request and
\* the task it spawned have come to an end.
AllOver ==
    /\ \A s \in Slots : reqs[s].pc \in {"idle", "done"}
    /\ \A i \in Ids : creq[i].pc = "idle" \/ CreateOver(i)

\* C40: a handler that holds a guard of the registry lock takes no further
\* guard, and under fair scheduling every request that arrives returns and
\* every provisioning task comes to an end: the requests being finitely
\* many, from some point on nothing is left unfinished.
C40_EveryRequestCompletes ==
    /\ [][\A s \in Slots :
             (HoldsGuard(s) /\ reqs'[s] # reqs[s]) =>
                /\ lock'.writer \in {lock.writer, NoHolder}
                /\ lock'.readers \subseteq lock.readers]_vars
    /\ <>[]AllOver

\* A list holds the write lock for its refresh loop while a get waits to
\* merge its result and a provisioning task waits to commit.
C40_Witness ==
    \E s, t \in Slots, i \in Ids :
        /\ reqs[s].op = "list" /\ lock.writer = s
        /\ reqs[t].op = "get" /\ reqs[t].pc = "commit"
        /\ creq[i].pc = "started"

====
